---- MODULE Spec2Model ----
(***************************************************************************)
(* Model of src/app/api/realtime/route.ts: the module-level arrivals cache *)
(* (cache, inFlightRefresh, retryTimer), the GET handler, refreshCache,    *)
(* scheduleRetry and fetchFromMarta, run on a single-threaded event loop.  *)
(*                                                                         *)
(* A macrotask (a request arriving, an upstream response arriving, a timer *)
(* firing, the clock advancing) runs only when the microtask queue is      *)
(* empty; promise reactions run one at a time from the microtask queue, in *)
(* the order in which they were registered.                                *)
(***************************************************************************)
EXTENDS Integers, Sequences, FiniteSets, TLC

(***************************************************************************)
(* Program constants.                                                      *)
(***************************************************************************)
CACHE_TTL_MS == 60000
RETRY_INTERVAL_MS == 2000
UPSTREAM_SLICE == 500

(***************************************************************************)
(* Bounds of the model.                                                    *)
(***************************************************************************)
NumRequests == 2
MaxLate == 1
MaxFirings == 2
MaxSetBacks == 1
MaxRecords == 1

Requests == 1..NumRequests

(***************************************************************************)
(* Values.  An optional value is boxed: null is the empty tuple and a      *)
(* present value v is <<v>>, so that null differs from the empty array.    *)
(***************************************************************************)
Null == <<>>
Some(v) == <<v>>
Unbox(o) == o[1]

NoKey == ""
ApiKeys == {NoKey, "key"}

\* The record arrays the upstream can return: 0..MaxRecords records.
Payloads == {[i \in 1..n |-> i] : n \in 0..MaxRecords}

(***************************************************************************)
(* What response.json() can return: the cast to unknown[] checks nothing,  *)
(* so besides an array the body may be the JSON value null or a JSON value *)
(* that is neither (an object, a number, a string).  Arrays hold the       *)
(* records 1..n; the other two values are written as tuples no array is    *)
(* equal to.                                                               *)
(***************************************************************************)
JsonNull == <<-1>>
JsonObject == <<0>>
JsonValues == Payloads \cup {JsonNull, JsonObject}

\* Response bodies of a failed HTTP exchange, as character sequences.
ErrorBodies == {<<>>, <<"e">>}
NoResponseBody == <<"N", "o", "b", "o", "d", "y">>
ExceptionMessage == <<"x">>
ErrorStatuses == {500, 503}

\* What the upstream can do with one HTTP exchange.
Responses ==
    [kind : {"json"}, status : {200}, body : JsonValues]
        \cup [kind : {"http_error"}, status : ErrorStatuses, body : ErrorBodies]
        \cup [kind : {"bad_json"}, status : {200}, body : {<<>>}]
        \cup [kind : {"network_error"}, status : {0}, body : {<<>>}]

\* The instants the clock can show besides those around a timer's deadline:
\* the start, the first expiry and up to MaxLate retry intervals after it.
MaxTime == CACHE_TTL_MS + MaxLate * RETRY_INTERVAL_MS
Instants ==
    {0} \cup {CACHE_TTL_MS + d * RETRY_INTERVAL_MS : d \in 0..MaxLate}

Min(a, b) == IF a <= b THEN a ELSE b

VARIABLES
    now,              \* Date.now()
    cache,            \* the module variable cache: [payload, fetchedAt]
    inFlightRefresh,  \* null or the promise of the refresh in progress
    retryTimer,       \* null or the handle setTimeout returned
    timers,           \* the timeouts scheduled and not yet fired or cleared
    promises,         \* the promises refreshCache created: state and reactions
    microtasks,       \* the microtask queue of the event loop
    pc,               \* per request: where the GET handler is suspended
    apiKey,           \* per request: the handler's local apiKey
    res,              \* per request: the response the handler returned
    retrying,         \* the timer callbacks suspended at their await
    lastResult,       \* history: what fetchFromMarta returned in this task
    firings,          \* history: how many timeouts the event loop has run
    setbacks          \* history: how many times the wall clock was set back

vars == <<now, cache, inFlightRefresh, retryTimer, timers, promises,
          microtasks, pc, apiKey, res, retrying, lastResult, firings,
          setbacks>>

(***************************************************************************)
(* Handles.  A promise or a timeout is known by a positive number; a       *)
(* variable that holds none holds 0, which is falsy as null is.            *)
(***************************************************************************)
NoPromise == 0
NoTimer == 0

FreshId(used) == CHOOSE i \in 1..(Cardinality(used) + 1) : i \notin used

GetProc(r) == [t |-> "GET", id |-> r]
RetryProc(id) == [t |-> "retry", id |-> id]

NoPromises == [i \in {} |-> [state |-> "pending", waiters |-> <<>>]]

\* The promises still referenced: the pending ones and the one in the marker.
Live(pr, marker) ==
    [i \in {j \in DOMAIN pr : pr[j].state = "pending" \/ j = marker} |-> pr[i]]

\* hasFreshCache with <= for <: a payload aged exactly the TTL counts as fresh.
hasFreshCacheInclusive(c, t) ==
    c.payload # Null /\ t - c.fetchedAt <= CACHE_TTL_MS

(***************************************************************************)
(* now() - cache.fetchedAt < CACHE_TTL_MS on a present payload.            *)
(***************************************************************************)
hasFreshCache(c, t) ==
    c.payload # Null /\ t - c.fetchedAt < CACHE_TTL_MS

(***************************************************************************)
(* fetchFromMarta: the UpstreamResult of one HTTP exchange.  A body that   *)
(* is not JSON and a failed exchange both end in the catch clause.         *)
(***************************************************************************)
Slice(s, n) == SubSeq(s, 1, Min(Len(s), n))

fetchFromMarta(resp) ==
    IF resp.kind = "json"
    THEN [ok |-> TRUE,
          payload |-> IF resp.body = JsonNull THEN Null ELSE Some(resp.body),
          status |-> resp.status,
          upstream |-> <<>>]
    ELSE IF resp.kind = "http_error"
    THEN [ok |-> FALSE, payload |-> Null, status |-> resp.status,
          upstream |-> IF Slice(resp.body, UPSTREAM_SLICE) = <<>>
                       THEN NoResponseBody
                       ELSE Slice(resp.body, UPSTREAM_SLICE)]
    ELSE [ok |-> FALSE, payload |-> Null, status |-> 500,
          upstream |-> ExceptionMessage]

NoResult == [ok |-> FALSE, payload |-> Null, status |-> 0, upstream |-> <<>>]

(***************************************************************************)
(* The responses of GET.                                                   *)
(***************************************************************************)
NoResponse ==
    [status |-> 0, data |-> Null, hit |-> FALSE, stale |-> FALSE, ageMs |-> 0,
     message |-> "", errStatus |-> 0, upstream |-> <<>>]

MissingKeyResponse ==
    [NoResponse EXCEPT !.status = 500,
                       !.message = "Missing MARTA_API_KEY environment variable."]

DataResponse(payload, hit, stale, ageMs, message) ==
    [NoResponse EXCEPT !.status = 200, !.data = payload, !.hit = hit,
                       !.stale = stale, !.ageMs = ageMs, !.message = message]

ErrorResponse(lastAttempt) ==
    [NoResponse EXCEPT !.status = 500, !.message = "MARTA API error",
                       !.errStatus = lastAttempt.status,
                       !.upstream = lastAttempt.upstream]

StaleMessage == "Serving stale cache while MARTA API recovers."

\* scheduleRetry without its first line: it schedules a timeout always.
scheduleRetryNoGuard(rt, ts) ==
    LET id == FreshId({x.id : x \in ts} \cup retrying \cup {rt})
    IN  [retryTimer |-> id,
         timers |-> ts \cup {[id |-> id, fireAt |-> now + RETRY_INTERVAL_MS]}]

(***************************************************************************)
(* scheduleRetry: the retry timer and the scheduled timeouts after the     *)
(* call, given them before it.                                             *)
(***************************************************************************)
scheduleRetry(rt, ts) ==
    IF rt # NoTimer
    THEN [retryTimer |-> rt, timers |-> ts]
    ELSE LET id == FreshId({x.id : x \in ts} \cup retrying)
         IN  [retryTimer |-> id,
              timers |-> ts \cup {[id |-> id, fireAt |-> now + RETRY_INTERVAL_MS]}]

\* clearTimeout(handle)
clearTimeout(ts, handle) == {x \in ts : x.id # handle}

\* The body stamping the cached payload with the time of a failed attempt.
refreshBodyStampsFailure(result) ==
    IF result.ok
    THEN [cache |-> [payload |-> result.payload, fetchedAt |-> now],
          retryTimer |-> NoTimer,
          timers |-> IF retryTimer # NoTimer
                     THEN clearTimeout(timers, retryTimer)
                     ELSE timers,
          value |-> TRUE]
    ELSE IF cache.payload # Null /\ result.status = 500
    THEN [cache |-> [cache EXCEPT !.fetchedAt = now],
          retryTimer |-> scheduleRetry(retryTimer, timers).retryTimer,
          timers |-> scheduleRetry(retryTimer, timers).timers,
          value |-> FALSE]
    ELSE [cache |-> [cache EXCEPT !.fetchedAt = now],
          retryTimer |-> retryTimer, timers |-> timers,
          value |-> FALSE]

\* The body without the test at its failure branch: any failure arms a retry.
refreshBodyRetryAnyFailure(result) ==
    IF result.ok
    THEN [cache |-> [payload |-> result.payload, fetchedAt |-> now],
          retryTimer |-> NoTimer,
          timers |-> IF retryTimer # NoTimer
                     THEN clearTimeout(timers, retryTimer)
                     ELSE timers,
          value |-> TRUE]
    ELSE [cache |-> cache,
          retryTimer |-> scheduleRetry(retryTimer, timers).retryTimer,
          timers |-> scheduleRetry(retryTimer, timers).timers,
          value |-> FALSE]

(***************************************************************************)
(* The body of the async function refreshCache stores in inFlightRefresh,  *)
(* from the point where fetchFromMarta has answered: the cache, the retry  *)
(* timer and the scheduled timeouts it leaves, and the value it returns.   *)
(***************************************************************************)
refreshBody(result) ==
    IF result.ok
    THEN [cache |-> [payload |-> result.payload, fetchedAt |-> now],
          retryTimer |-> NoTimer,
          timers |-> IF retryTimer # NoTimer
                     THEN clearTimeout(timers, retryTimer)
                     ELSE timers,
          value |-> TRUE]
    ELSE IF cache.payload # Null /\ result.status = 500
    THEN [cache |-> cache,
          retryTimer |-> scheduleRetry(retryTimer, timers).retryTimer,
          timers |-> scheduleRetry(retryTimer, timers).timers,
          value |-> FALSE]
    ELSE [cache |-> cache, retryTimer |-> retryTimer, timers |-> timers,
          value |-> FALSE]

(***************************************************************************)
(* refreshCache(apiKey) called by proc, up to its first suspension: it     *)
(* returns the promise in the marker if there is one, and otherwise starts *)
(* the upstream call, stores the new promise and awaits it.                *)
(***************************************************************************)
refreshCache(proc) ==
    IF inFlightRefresh # NoPromise
    THEN /\ UNCHANGED inFlightRefresh
         /\ IF promises[inFlightRefresh].state = "pending"
            THEN /\ promises' =
                        [promises EXCEPT ![inFlightRefresh].waiters =
                            Append(@, [proc |-> proc, role |-> "joiner"])]
                 /\ UNCHANGED microtasks
            ELSE /\ microtasks' =
                        Append(microtasks,
                               [proc |-> proc, task |-> "resolve",
                                value |-> promises[inFlightRefresh].state = "true"])
                 /\ UNCHANGED promises
    ELSE LET id == FreshId(DOMAIN promises)
         IN  /\ inFlightRefresh' = id
             /\ promises' =
                    [i \in DOMAIN promises \cup {id} |->
                        IF i = id
                        THEN [state |-> "pending",
                              waiters |-> <<[proc |-> proc, role |-> "starter"]>>]
                        ELSE promises[i]]
             /\ UNCHANGED microtasks

(***************************************************************************)
(* The initial state: the module has just been loaded.                     *)
(***************************************************************************)
Init ==
    /\ now = 0
    /\ cache = [payload |-> Null, fetchedAt |-> 0]
    /\ inFlightRefresh = NoPromise
    /\ retryTimer = NoTimer
    /\ timers = {}
    /\ promises = NoPromises
    /\ microtasks = <<>>
    /\ pc = [r \in Requests |-> "idle"]
    /\ apiKey = [r \in Requests |-> NoKey]
    /\ res = [r \in Requests |-> NoResponse]
    /\ retrying = {}
    /\ lastResult = NoResult
    /\ firings = 0
    /\ setbacks = 0

(***************************************************************************)
(* The clock.  now is the value Date.now() returns when a task starts; a   *)
(* later read in the same task or in a reaction that follows may return    *)
(* any value from now on, and the clock is then there.  TimerEarly is how  *)
(* far before now-at-setTimeout + delay, as Date.now() shows it, the event *)
(* loop may run a timeout; it may run it any time later.  Date.now() is    *)
(* the wall clock, which can be set back (SetBackBy at a time, between     *)
(* tasks or between two reactions of a drain); timeouts run on the         *)
(* monotonic clock, so the reading of the wall clock at which each is due  *)
(* moves back with it.                                                     *)
(***************************************************************************)
SetBackBy == RETRY_INTERVAL_MS \div 2

TimerEarly == 1

ClockValues ==
    Instants \cup {x.fireAt : x \in timers}
             \cup {x.fireAt - TimerEarly : x \in timers}

Later == {t \in ClockValues \cup {now} : t >= now /\ t <= MaxTime}

\* A macrotask starts when no microtask is queued and every response that
\* was returned has been sent.
Idle == microtasks = <<>> /\ \A q \in Requests : pc[q] # "done"

\* GET without its test of apiKey.
GETNoKeyCheck(r, key) ==
    /\ UNCHANGED <<firings, setbacks>>
    /\ Idle
    /\ pc[r] = "idle"
    /\ \A q \in 1..(r - 1) : pc[q] # "idle"
    /\ apiKey' = [apiKey EXCEPT ![r] = key]
    /\ IF hasFreshCache(cache, now)
       THEN /\ \E t \in Later :
                 /\ now' = t
                 /\ res' = [res EXCEPT ![r] =
                             DataResponse(cache.payload, TRUE, FALSE,
                                          t - cache.fetchedAt, "")]
            /\ pc' = [pc EXCEPT ![r] = "done"]
            /\ UNCHANGED <<inFlightRefresh, promises, microtasks>>
       ELSE /\ refreshCache(GetProc(r))
            /\ pc' = [pc EXCEPT ![r] = "refresh"]
            /\ UNCHANGED <<now, res>>
    /\ lastResult' = NoResult
    /\ UNCHANGED <<cache, retryTimer, timers, retrying>>

(***************************************************************************)
(* GET, from the arrival of request r to its first suspension or its       *)
(* return.  key is process.env.MARTA_API_KEY as the handler reads it.      *)
(***************************************************************************)
GET(r, key) ==
    /\ UNCHANGED <<firings, setbacks>>
    /\ Idle
    /\ pc[r] = "idle"
    /\ \A q \in 1..(r - 1) : pc[q] # "idle"
    /\ apiKey' = [apiKey EXCEPT ![r] = key]
    /\ IF key = NoKey
       THEN /\ res' = [res EXCEPT ![r] = MissingKeyResponse]
            /\ pc' = [pc EXCEPT ![r] = "done"]
            /\ UNCHANGED <<now, inFlightRefresh, promises, microtasks>>
       ELSE IF hasFreshCache(cache, now)
       THEN /\ \E t \in Later :
                 /\ now' = t
                 /\ res' = [res EXCEPT ![r] =
                             DataResponse(cache.payload, TRUE, FALSE,
                                          t - cache.fetchedAt, "")]
            /\ pc' = [pc EXCEPT ![r] = "done"]
            /\ UNCHANGED <<inFlightRefresh, promises, microtasks>>
       ELSE /\ refreshCache(GetProc(r))
            /\ pc' = [pc EXCEPT ![r] = "refresh"]
            /\ UNCHANGED <<now, res>>
    /\ lastResult' = NoResult
    /\ UNCHANGED <<cache, retryTimer, timers, retrying>>

(***************************************************************************)
(* The upstream answers the call of the refresh whose promise is id: the   *)
(* rest of the stored async function runs and settles the promise, which   *)
(* queues the reactions of those awaiting it, in the order they came.      *)
(***************************************************************************)
\* Settling that resumes the caller that started the refresh and no other.
reactionsStarterOnly(ws, value) ==
    [i \in 1..Min(Len(ws), 1) |->
        [proc |-> ws[i].proc,
         task |-> IF ws[i].role = "starter" THEN "finally" ELSE "resolve",
         value |-> value]]

reactions(ws, value) ==
    [i \in 1..Len(ws) |->
        [proc |-> ws[i].proc,
         task |-> IF ws[i].role = "starter" THEN "finally" ELSE "resolve",
         value |-> value]]

RefreshSettles(id, resp) ==
    /\ UNCHANGED <<firings, setbacks>>
    /\ Idle
    /\ id \in DOMAIN promises
    /\ promises[id].state = "pending"
    /\ lastResult' = fetchFromMarta(resp)
    /\ LET out == refreshBody(fetchFromMarta(resp))
       IN  /\ cache' = out.cache
           /\ retryTimer' = out.retryTimer
           /\ timers' = out.timers
           /\ microtasks' = reactions(promises[id].waiters, out.value)
           /\ promises' =
                 Live([promises EXCEPT ![id] =
                          [state |-> IF out.value THEN "true" ELSE "false",
                           waiters |-> <<>>]],
                      inFlightRefresh)
    /\ UNCHANGED <<now, inFlightRefresh, pc, apiKey, res, retrying>>

\* refreshCache without its finally clause: the marker keeps the promise.
RefreshCacheLeavesMarker ==
    /\ UNCHANGED <<firings, setbacks>>
    /\ microtasks # <<>>
    /\ Head(microtasks).task = "finally"
    /\ microtasks' =
          Append(Tail(microtasks), [Head(microtasks) EXCEPT !.task = "resume"])
    /\ UNCHANGED <<now, cache, inFlightRefresh, promises, retryTimer, timers,
                   pc, apiKey, res, retrying, lastResult>>

(***************************************************************************)
(* refreshCache resumes in the caller that started the refresh: the        *)
(* finally clause clears the marker and the caller's own await is queued.  *)
(***************************************************************************)
RefreshCacheFinally ==
    /\ UNCHANGED <<firings, setbacks>>
    /\ microtasks # <<>>
    /\ Head(microtasks).task = "finally"
    /\ inFlightRefresh' = NoPromise
    /\ promises' = Live(promises, NoPromise)
    /\ microtasks' =
          Append(Tail(microtasks), [Head(microtasks) EXCEPT !.task = "resume"])
    /\ UNCHANGED <<now, cache, retryTimer, timers, pc, apiKey, res, retrying,
                   lastResult>>

\* The promise a joining caller got from refreshCache is resolved.
JoinerResolved ==
    /\ UNCHANGED <<firings, setbacks>>
    /\ microtasks # <<>>
    /\ Head(microtasks).task = "resolve"
    /\ microtasks' =
          Append(Tail(microtasks), [Head(microtasks) EXCEPT !.task = "resume"])
    /\ UNCHANGED <<now, cache, inFlightRefresh, retryTimer, timers, promises,
                   pc, apiKey, res, retrying, lastResult>>

\* GET without its stale branch: a failed refresh goes on to the last attempt.
afterRefreshNoStale(refreshed, t) ==
    IF refreshed /\ cache.payload # Null
    THEN Some(DataResponse(cache.payload, FALSE, FALSE, 0, ""))
    ELSE Null

(***************************************************************************)
(* GET after await refreshCache(apiKey): the response it returns, or Null  *)
(* when it goes on to its own call of fetchFromMarta.                      *)
(***************************************************************************)
afterRefresh(refreshed, t) ==
    IF refreshed /\ cache.payload # Null
    THEN Some(DataResponse(cache.payload, FALSE, FALSE, 0, ""))
    ELSE IF cache.payload # Null
    THEN Some(DataResponse(cache.payload, TRUE, TRUE, t - cache.fetchedAt,
                           StaleMessage))
    ELSE Null

GETResumes(r) ==
    /\ UNCHANGED <<firings, setbacks>>
    /\ microtasks # <<>>
    /\ Head(microtasks).task = "resume"
    /\ Head(microtasks).proc = GetProc(r)
    /\ microtasks' = Tail(microtasks)
    /\ \E t \in Later :
          LET out == afterRefresh(Head(microtasks).value, t)
          IN  IF out # Null
              THEN /\ res' = [res EXCEPT ![r] = Unbox(out)]
                   /\ pc' = [pc EXCEPT ![r] = "done"]
                   /\ now' = IF Unbox(out).stale THEN t ELSE now
              ELSE /\ pc' = [pc EXCEPT ![r] = "fallback"]
                   /\ UNCHANGED <<now, res>>
    /\ UNCHANGED <<cache, inFlightRefresh, retryTimer, timers, promises,
                   apiKey, retrying, lastResult>>

(***************************************************************************)
(* The upstream answers the call GET made itself, with no cached payload.  *)
(***************************************************************************)
afterLastAttempt(lastAttempt) ==
    IF lastAttempt.ok
    THEN [cache |-> [payload |-> lastAttempt.payload, fetchedAt |-> now],
          response |-> DataResponse(lastAttempt.payload, FALSE, FALSE, 0, "")]
    ELSE [cache |-> cache, response |-> ErrorResponse(lastAttempt)]

LastAttemptSettles(r, resp) ==
    /\ UNCHANGED <<firings, setbacks>>
    /\ Idle
    /\ pc[r] = "fallback"
    /\ lastResult' = fetchFromMarta(resp)
    /\ LET out == afterLastAttempt(fetchFromMarta(resp))
       IN  /\ cache' = out.cache
           /\ res' = [res EXCEPT ![r] = out.response]
    /\ pc' = [pc EXCEPT ![r] = "done"]
    /\ UNCHANGED <<now, inFlightRefresh, retryTimer, timers, promises,
                   microtasks, apiKey, retrying>>

\* The callback making an upstream call of its own whatever is in flight.
TimerFiresOwnCall(id) ==
    /\ Idle
    /\ firings < MaxFirings
    /\ firings' = firings + 1
    /\ UNCHANGED setbacks
    /\ \E x \in timers : x.id = id /\ now + TimerEarly >= x.fireAt
    /\ timers' = clearTimeout(timers, id)
    /\ retryTimer' = NoTimer
    /\ retrying' = retrying \cup {id}
    /\ LET p == FreshId(DOMAIN promises)
       IN  /\ inFlightRefresh' = p
           /\ promises' =
                  [i \in DOMAIN promises \cup {p} |->
                      IF i = p
                      THEN [state |-> "pending",
                            waiters |-> <<[proc |-> RetryProc(id),
                                           role |-> "starter"]>>]
                      ELSE promises[i]]
           /\ UNCHANGED microtasks
    /\ lastResult' = NoResult
    /\ UNCHANGED <<now, cache, pc, apiKey, res>>

(***************************************************************************)
(* The timeout id fires: the callback clears retryTimer and calls          *)
(* refreshCache; after the await it schedules a retry unless it succeeded. *)
(***************************************************************************)
TimerFires(id) ==
    /\ Idle
    /\ firings < MaxFirings
    /\ firings' = firings + 1
    /\ UNCHANGED setbacks
    /\ \E x \in timers : x.id = id /\ now + TimerEarly >= x.fireAt
    /\ timers' = clearTimeout(timers, id)
    /\ retryTimer' = NoTimer
    /\ retrying' = retrying \cup {id}
    /\ refreshCache(RetryProc(id))
    /\ lastResult' = NoResult
    /\ UNCHANGED <<now, cache, pc, apiKey, res>>

\* The callback without its test of success: it schedules a retry always.
RetryResumesAlways(id) ==
    /\ UNCHANGED <<firings, setbacks>>
    /\ microtasks # <<>>
    /\ Head(microtasks).task = "resume"
    /\ Head(microtasks).proc = RetryProc(id)
    /\ microtasks' = Tail(microtasks)
    /\ retrying' = retrying \ {id}
    /\ retryTimer' = scheduleRetry(retryTimer, timers).retryTimer
    /\ timers' = scheduleRetry(retryTimer, timers).timers
    /\ UNCHANGED <<now, cache, inFlightRefresh, promises, pc, apiKey, res,
                   lastResult>>

RetryResumes(id) ==
    /\ UNCHANGED <<firings, setbacks>>
    /\ microtasks # <<>>
    /\ Head(microtasks).task = "resume"
    /\ Head(microtasks).proc = RetryProc(id)
    /\ microtasks' = Tail(microtasks)
    /\ retrying' = retrying \ {id}
    /\ IF Head(microtasks).value
       THEN UNCHANGED <<retryTimer, timers>>
       ELSE /\ retryTimer' = scheduleRetry(retryTimer, timers).retryTimer
            /\ timers' = scheduleRetry(retryTimer, timers).timers
    /\ UNCHANGED <<now, cache, inFlightRefresh, promises, pc, apiKey, res,
                   lastResult>>

(***************************************************************************)
(* The environment: a response is sent and its request ends; time passes   *)
(* between tasks, also beyond the deadline of a timeout yet to run.        *)
(***************************************************************************)
Deliver(r) ==
    /\ UNCHANGED <<firings, setbacks>>
    /\ microtasks = <<>>
    /\ pc[r] = "done"
    /\ pc' = [pc EXCEPT ![r] = "idle"]
    /\ res' = [res EXCEPT ![r] = NoResponse]
    /\ apiKey' = [apiKey EXCEPT ![r] = NoKey]
    /\ lastResult' = NoResult
    /\ UNCHANGED <<now, cache, inFlightRefresh, retryTimer, timers, promises,
                   microtasks, retrying>>

Tick(t) ==
    /\ UNCHANGED <<firings, setbacks>>
    /\ Idle
    /\ t > now
    /\ t \in Later
    /\ now' = t
    /\ lastResult' = NoResult
    /\ UNCHANGED <<cache, inFlightRefresh, retryTimer, timers, promises,
                   microtasks, pc, apiKey, res, retrying>>

\* The wall clock is set back: between two tasks, or inside a task's drain
\* between two reactions, so that a later read shows an earlier time.
ClockSetBack ==
    /\ setbacks < MaxSetBacks
    /\ now >= SetBackBy
    /\ setbacks' = setbacks + 1
    /\ now' = now - SetBackBy
    /\ timers' = {[x EXCEPT !.fireAt = @ - SetBackBy] : x \in timers}
    /\ lastResult' = IF Idle THEN NoResult ELSE lastResult
    /\ UNCHANGED <<firings, cache, inFlightRefresh, retryTimer, promises,
                   microtasks, pc, apiKey, res, retrying>>

Next ==
    \/ \E r \in Requests, key \in ApiKeys : GET(r, key)
    \/ \E id \in DOMAIN promises, resp \in Responses : RefreshSettles(id, resp)
    \/ RefreshCacheFinally
    \/ JoinerResolved
    \/ \E r \in Requests : GETResumes(r)
    \/ \E r \in Requests, resp \in Responses : LastAttemptSettles(r, resp)
    \/ \E x \in timers : TimerFires(x.id)
    \/ \E id \in retrying : RetryResumes(id)
    \/ \E r \in Requests : Deliver(r)
    \/ \E t \in ClockValues : Tick(t)
    \/ ClockSetBack

Spec == Init /\ [][Next]_vars

(***************************************************************************)
(* The program on an event loop that runs every queued reaction and sends  *)
(* every response (weak fairness: nothing else can run meanwhile), with an *)
(* upstream that answers every call sooner or later (strong fairness: the  *)
(* answer is handled between other tasks).                                 *)
(***************************************************************************)
Fairness ==
    /\ WF_vars(RefreshCacheFinally)
    /\ WF_vars(JoinerResolved)
    /\ WF_vars(\E id \in retrying : RetryResumes(id))
    /\ \A r \in Requests : WF_vars(GETResumes(r))
    /\ \A r \in Requests : WF_vars(Deliver(r))
    /\ SF_vars(\E id \in DOMAIN promises, resp \in Responses :
                  RefreshSettles(id, resp))
    /\ \A r \in Requests : SF_vars(\E resp \in Responses : LastAttemptSettles(r, resp))

FairSpec == Spec /\ Fairness

(***************************************************************************)
(* Time passes and a timeout that is due fires, however many requests      *)
(* arrive in between.                                                      *)
(***************************************************************************)
TimeFairness ==
    /\ SF_vars(\E t \in ClockValues : Tick(t))
    /\ SF_vars(\E x \in timers : TimerFires(x.id))

RetrySpec == FairSpec /\ TimeFairness

(***************************************************************************)
(* The program with an upstream that answers every call with status 503.   *)
(* No timeout is ever scheduled there (C7 states it), so the two actions   *)
(* of the retry callback have no step to take and are left out.            *)
(***************************************************************************)
Only503 == {resp \in Responses : resp.kind = "http_error" /\ resp.status = 503}

Next503 ==
    \/ \E r \in Requests, key \in ApiKeys : GET(r, key)
    \/ \E id \in DOMAIN promises, resp \in Only503 : RefreshSettles(id, resp)
    \/ RefreshCacheFinally
    \/ JoinerResolved
    \/ \E r \in Requests : GETResumes(r)
    \/ \E r \in Requests, resp \in Only503 : LastAttemptSettles(r, resp)
    \/ \E r \in Requests : Deliver(r)
    \/ \E t \in Instants : Tick(t)
    \/ ClockSetBack

Spec503 == Init /\ [][Next503]_vars

TypeOK ==
    /\ now \in 0..MaxTime
    /\ firings \in 0..MaxFirings
    /\ setbacks \in 0..MaxSetBacks
    /\ cache.payload \in {Null} \cup {Some(p) : p \in JsonValues \ {JsonNull}}
    /\ cache.fetchedAt \in 0..MaxTime
    /\ pc \in [Requests -> {"idle", "refresh", "fallback", "done"}]
    /\ apiKey \in [Requests -> ApiKeys]

(***************************************************************************)
(* Vocabulary of the properties.                                           *)
(***************************************************************************)
\* The refreshes whose upstream call has not answered yet.
PendingRefreshes == {i \in DOMAIN promises : promises[i].state = "pending"}

\* The callers awaiting the outcome of the refresh id.
Awaiting(id) ==
    {promises[id].waiters[i].proc : i \in 1..Len(promises[id].waiters)}

\* The requests that made their own upstream call and await its answer.
LastAttempts == {r \in Requests : pc[r] = "fallback"}

\* The upstream calls outstanding.
Outstanding == Cardinality(PendingRefreshes) + Cardinality(LastAttempts)

Populated == cache.payload # Null

\* Requests waiting on a populated cache for a refresh that has not answered
\* all await the one outstanding refresh, and requests that return together
\* return the same payload and flags: the refreshed payload with hit=false,
\* stale=false, or the stale payload with hit=true, stale=true.
SharedRefresh ==
    /\ (Populated /\ microtasks = <<>>) =>
          \A r \in Requests : pc[r] = "refresh" =>
              /\ Cardinality(PendingRefreshes) = 1
              /\ \A id \in PendingRefreshes :
                    id = inFlightRefresh /\ GetProc(r) \in Awaiting(id)
    /\ \A r, q \in Requests :
          (r # q /\ pc[r] = "done" /\ pc[q] = "done") =>
              /\ res[r].data = res[q].data
              /\ res[r].hit = res[q].hit /\ res[r].stale = res[q].stale
              /\ res[r].status = 200 /\ res[q].status = 200
              /\ res[r].hit = res[r].stale

(***************************************************************************)
(* C1.  Single-flight on a populated cache: while requests wait for a      *)
(* refresh whose upstream call has not answered, exactly one refresh call  *)
(* is outstanding and all of them await that one; the answer to that call  *)
(* leaves a payload in the cache, so that none of them goes on to a call   *)
(* of its own; and the responses they then return carry the same payload   *)
(* and flags, never a mixture of refreshed and stale.                      *)
(***************************************************************************)
C1_SingleFlight ==
    [][/\ SharedRefresh'
       /\ (/\ Populated
           /\ \E r \in Requests : pc[r] = "refresh"
           /\ PendingRefreshes \ PendingRefreshes' # {})
             => Populated']_vars

(***************************************************************************)
(* C2.  At most one upstream call is outstanding, counting the calls of    *)
(* refreshes and the calls GET makes itself when no payload is cached.     *)
(***************************************************************************)
C2_AtMostOneUpstreamCall == Outstanding <= 1

\* Request r arrives in this step, with a credential.
Arrives(r) == pc[r] = "idle" /\ pc'[r] # "idle" /\ apiKey'[r] # NoKey

(***************************************************************************)
(* C3.  TTL respect: a call with a credential that finds a payload younger *)
(* than CACHE_TTL_MS returns it at once with hit=true, stale=false and an   *)
(* ageMs taken from a second reading of the clock (the clock then minus    *)
(* fetchedAt), and neither starts an upstream call nor awaits one; a call  *)
(* that finds no payload, or one aged CACHE_TTL_MS or more, returns        *)
(* nothing yet and awaits a refresh whose call is outstanding.             *)
(***************************************************************************)
C3_TTLRespect ==
    [][\A r \in Requests : Arrives(r) =>
          IF cache.payload # Null /\ now - cache.fetchedAt < CACHE_TTL_MS
          THEN /\ pc'[r] = "done"
               /\ res'[r].status = 200
               /\ res'[r].data = cache.payload
               /\ res'[r].hit /\ ~res'[r].stale
               /\ res'[r].ageMs = now' - cache.fetchedAt
               /\ promises' = promises
               /\ inFlightRefresh' = inFlightRefresh
               /\ microtasks' = microtasks
          ELSE /\ pc'[r] = "refresh"
               /\ res'[r] = NoResponse
               /\ inFlightRefresh' \in PendingRefreshes'
               /\ GetProc(r) \in Awaiting(inFlightRefresh)'
               /\ Cardinality(PendingRefreshes') = 1]_vars

\* A call has been answered from a payload that was fresh when tested, and
\* whose reported age, read from the clock afterwards, has reached the TTL.
C3_Witness ==
    \E r \in Requests :
        /\ pc[r] = "done"
        /\ res[r].hit /\ ~res[r].stale
        /\ res[r].ageMs >= CACHE_TTL_MS
        /\ Outstanding = 0

\* C3 with one reading of the clock: the age a fresh hit reports is the age
\* its freshness test saw, hence below CACHE_TTL_MS.
C3_AgeIsAgeTested ==
    [][\A r \in Requests :
          (Arrives(r) /\ hasFreshCache(cache, now)) =>
              /\ res'[r].ageMs = now - cache.fetchedAt
              /\ res'[r].ageMs < CACHE_TTL_MS]_vars

(***************************************************************************)
(* C4.  Stale fallback: a call whose refresh has failed, with a payload in *)
(* the cache, returns a 200 response carrying that payload with hit=true,  *)
(* stale=true and ageMs = now - fetchedAt, whatever the failure's status.  *)
(***************************************************************************)
C4_StaleFallback ==
    [][\A r \in Requests :
          (/\ pc[r] = "refresh" /\ pc'[r] # "refresh"
           /\ ~Head(microtasks).value
           /\ cache.payload # Null) =>
              /\ pc'[r] = "done"
              /\ res'[r].status = 200
              /\ res'[r].data = cache.payload
              /\ res'[r].hit /\ res'[r].stale
              /\ res'[r].ageMs = now' - cache.fetchedAt
              /\ res'[r].errStatus = 0
              /\ cache' = cache]_vars

\* A call has returned the payload, aged exactly the TTL, after a 503.
C4_Witness ==
    \E r \in Requests :
        /\ pc[r] = "done"
        /\ res[r].status = 200 /\ res[r].hit /\ res[r].stale
        /\ res[r].ageMs = CACHE_TTL_MS
        /\ ~lastResult.ok /\ lastResult.status = 503

(***************************************************************************)
(* C5.  Retry convergence.  A retry is scheduled RETRY_INTERVAL_MS ahead;  *)
(* when it is due its callback clears retryTimer and awaits a refresh      *)
(* whose call is outstanding, with no request involved; if that call       *)
(* succeeds, the cache becomes the new payload stamped with the time of    *)
(* the success and no retry is armed or scheduled, and the callback, once  *)
(* resumed, leaves it so.                                                  *)
(***************************************************************************)
C5_RetryConvergence ==
    [][/\ \A x \in timers' :
             (\A y \in timers : y.id # x.id)
                 => x.fireAt = now + RETRY_INTERVAL_MS
       /\ \A id \in retrying' \ retrying :
             /\ \E x \in timers : x.id = id /\ now + TimerEarly >= x.fireAt
             /\ retryTimer' = NoTimer
             /\ inFlightRefresh' \in PendingRefreshes'
             /\ RetryProc(id) \in Awaiting(inFlightRefresh)'
       /\ \A id \in PendingRefreshes \ PendingRefreshes' :
             (lastResult'.ok /\ \E i \in retrying : RetryProc(i) \in Awaiting(id))
                 => /\ cache' = [payload |-> lastResult'.payload,
                                 fetchedAt |-> now]
                    /\ retryTimer' = NoTimer
                    /\ timers' = {}
       /\ \A id \in retrying \ retrying' :
             Head(microtasks).value
                 => retryTimer' = NoTimer /\ timers' = {} /\ retrying' = {}]_vars

\* The refresh of a retry that fired two seconds after a failure on an
\* expired payload has succeeded, and its callback is about to resume.
C5_Witness ==
    /\ microtasks # <<>>
    /\ Head(microtasks).proc.t = "retry"
    /\ Head(microtasks).task = "resume"
    /\ Head(microtasks).value
    /\ lastResult.ok /\ cache.payload = lastResult.payload
    /\ cache.fetchedAt = now /\ now = CACHE_TTL_MS + RETRY_INTERVAL_MS
    /\ retryTimer = NoTimer /\ timers = {}
    /\ \A r \in Requests : pc[r] = "idle"

(***************************************************************************)
(* C6.  Only status-500 failures arm a retry: whenever retryTimer goes     *)
(* from null to a handle, the upstream result the running task received    *)
(* is a failure with status 500, also when the task is a retry's own.      *)
(***************************************************************************)
C6_OnlyStatus500Arms ==
    [][(retryTimer = NoTimer /\ retryTimer' # NoTimer)
          => (~lastResult'.ok /\ lastResult'.status = 500)]_vars

(***************************************************************************)
(* C7.  Cold-start failure.  With an upstream that answers 503 to every    *)
(* call: the cache stays empty, no retry is ever armed or scheduled, and   *)
(* every response to a request that has a credential is the error          *)
(* response carrying status 503 and the detail fetchFromMarta reported,    *)
(* however many requests are being served.                                 *)
(***************************************************************************)
C7_ColdStartFailure ==
    /\ cache = [payload |-> Null, fetchedAt |-> 0]
    /\ retryTimer = NoTimer /\ timers = {} /\ retrying = {}
    /\ \A r \in Requests :
          (pc[r] = "done" /\ apiKey[r] # NoKey) =>
              /\ res[r].status = 500
              /\ res[r].data = Null
              /\ res[r].errStatus = 503
              /\ lastResult.status = 503
              /\ res[r].upstream = lastResult.upstream
              /\ res[r].upstream \in {NoResponseBody} \cup (ErrorBodies \ {<<>>})

\* A request has returned the 503 error while another awaits its own call.
C7_Witness ==
    \E r, q \in Requests :
        /\ pc[r] = "done" /\ apiKey[r] # NoKey
        /\ res[r].errStatus = 503 /\ res[r].upstream = NoResponseBody
        /\ pc[q] = "fallback"
        /\ now > 0

(***************************************************************************)
(* C8.  Cold-start success: a call whose refresh has succeeded returns a   *)
(* 200 response with exactly the records fetchFromMarta returned,          *)
(* hit=false, stale=false and ageMs=0, and the cache then holds that       *)
(* payload stamped with the time of the success (the time it is then, on a *)
(* clock that has not been set back), which makes it fresh.                *)
(***************************************************************************)
C8_ColdStartSuccess ==
    [][\A r \in Requests :
          (pc[r] = "refresh" /\ pc'[r] # "refresh" /\ Head(microtasks).value) =>
              /\ lastResult.ok
              /\ pc'[r] = "done"
              /\ res'[r].status = 200
              /\ res'[r].data = lastResult.payload
              /\ ~res'[r].hit /\ ~res'[r].stale /\ res'[r].ageMs = 0
              /\ res'[r].errStatus = 0
              /\ cache'.payload = lastResult.payload
              /\ setbacks = 0 => cache'.fetchedAt = now
              /\ now - cache'.fetchedAt < CACHE_TTL_MS]_vars

(***************************************************************************)
(* C9.  Missing credential: a call that reads no MARTA_API_KEY returns     *)
(* the configuration error at once, in whatever state it arrives: the      *)
(* response carries no data, no upstream call is started or awaited, and   *)
(* the cache, the in-flight marker and the retry timer are left as found.  *)
(***************************************************************************)
C9_MissingCredential ==
    [][\A r \in Requests :
          (pc[r] = "idle" /\ pc'[r] # "idle" /\ apiKey'[r] = NoKey) =>
              /\ pc'[r] = "done"
              /\ res'[r].status = 500
              /\ res'[r].message = "Missing MARTA_API_KEY environment variable."
              /\ res'[r].data = Null
              /\ res'[r].errStatus = 0
              /\ UNCHANGED <<cache, inFlightRefresh, retryTimer, timers,
                             promises, microtasks, retrying>>]_vars

\* The configuration error has been returned while a payload is cached, a
\* refresh is in flight and a retry is armed.
C9_Witness ==
    \E r \in Requests :
        /\ pc[r] = "done" /\ apiKey[r] = NoKey
        /\ res[r].status = 500 /\ res[r].data = Null
        /\ Populated
        /\ inFlightRefresh \in PendingRefreshes
        /\ retryTimer # NoTimer

(***************************************************************************)
(* C10.  No hang: when every upstream call is answered, every call of GET  *)
(* that is suspended, on a refresh it started or joined or on its own last *)
(* attempt, eventually returns a response.                                 *)
(***************************************************************************)
C10_NoHang ==
    \A r \in Requests :
        (pc[r] \in {"refresh", "fallback"})
            ~> (pc[r] = "done" /\ res[r].status \in {200, 500})

\* A request has returned the upstream's error after its own last attempt
\* while another request is suspended on a refresh.
C10_Witness ==
    \E r, q \in Requests :
        /\ pc[r] = "done" /\ res[r].status = 500 /\ res[r].errStatus = 500
        /\ pc[q] = "refresh"
        /\ inFlightRefresh \in PendingRefreshes

\* A retry is armed: retryTimer holds a handle.
Armed == retryTimer # NoTimer

(***************************************************************************)
(* C11.  At most one timeout is scheduled, and every scheduled timeout is  *)
(* the one retryTimer refers to.                                           *)
(***************************************************************************)
C11_OneRetryTimer ==
    /\ Cardinality(timers) <= 1
    /\ \A x \in timers : x.id = retryTimer

\* A timeout is scheduled, by the refresh that failed with status 500,
\* while the callback that awaited that refresh has yet to resume.
C11_Witness ==
    /\ Cardinality(timers) = 1
    /\ retrying # {}
    /\ Armed
    /\ lastResult.status = 500

(***************************************************************************)
(* C12.  Success disarms the retry: a step that replaces the cache leaves  *)
(* no retry armed, and in no state is the cached payload younger than      *)
(* CACHE_TTL_MS while a retry is armed (ages being those of a clock that   *)
(* has not been set back).                                                 *)
(***************************************************************************)
C12_SuccessDisarms ==
    [][/\ cache' # cache => ~Armed'
       /\ ~(/\ setbacks' = 0
            /\ cache'.payload # Null
            /\ now' - cache'.fetchedAt < CACHE_TTL_MS
            /\ Armed')]_vars

(***************************************************************************)
(* C13.  A body that is not JSON, or a failed exchange, as the answer to   *)
(* the call of a refresh on a populated cache arms no retry.               *)
(***************************************************************************)
C13_MalformedArmsNoRetry ==
    [][\A id \in DOMAIN promises, resp \in Responses :
          (/\ resp.kind \in {"bad_json", "network_error"}
           /\ Populated
           /\ RefreshSettles(id, resp))
              => (retryTimer' = retryTimer /\ timers' = timers)]_vars

\* The upstream call that was answered last failed.
Failed == ~lastResult.ok /\ lastResult.status # 0

\* A retry is armed or its callback awaits a refresh.
RetryLoop == Armed \/ retrying # {}

\* A retry is armed and due within the time and the number of firings the
\* model covers.
ArmedInTime ==
    /\ Armed
    /\ firings < MaxFirings
    /\ \A x \in timers : x.fireAt - TimerEarly <= MaxTime

(***************************************************************************)
(* C14.  Retry loop persistence.  A callback that resumes after a failed   *)
(* refresh leaves one retry armed, due RETRY_INTERVAL_MS after the failure *)
(* (no later than that after the callback resumed); the loop               *)
(* (a retry armed or a callback awaiting) ends only in the reactions to a  *)
(* successful refresh, which leaves the cache stamped now (on a clock that *)
(* has not been set back); and an armed retry, once no upstream call fails *)
(* any more, leads with no request needed to a fresh cache with no retry   *)
(* armed.                                                                  *)
(***************************************************************************)
C14_RetryLoopPersists ==
    /\ [][/\ \A id \in retrying :
               (RetryResumes(id) /\ ~Head(microtasks).value)
                  => /\ Armed'
                     /\ Cardinality(timers') = 1
                     /\ \A x \in timers' :
                           /\ x.id = retryTimer'
                           /\ x.fireAt <= now + RETRY_INTERVAL_MS
          /\ (RetryLoop /\ ~RetryLoop')
                  => /\ lastResult'.ok
                     /\ cache'.payload = lastResult'.payload
                     /\ setbacks' = 0 => cache'.fetchedAt = now]_vars
    /\ ((ArmedInTime /\ []~Failed)
            ~> (~RetryLoop /\ hasFreshCache(cache, now)))

\* The marker is empty, or holds a refresh whose upstream call is
\* outstanding, or holds one that has just settled and whose finally clause
\* is the very next reaction to run.
MarkerLive ==
    \/ inFlightRefresh = NoPromise
    \/ inFlightRefresh \in PendingRefreshes
    \/ microtasks # <<>> /\ Head(microtasks).task = "finally"

\* A request or a retry callback begins to await a refresh in this step.
CallsRefresh ==
    \/ \E r \in Requests : Arrives(r) /\ pc'[r] = "refresh"
    \/ retrying' \ retrying # {}

(***************************************************************************)
(* C15.  The in-flight marker is cleared when the refresh completes, with  *)
(* success or failure: the marker never outlives the upstream call of its  *)
(* refresh by more than the finally clause that clears it, no refresh call *)
(* is outstanding outside the marker, and a request or timer callback that *)
(* calls refreshCache when no refresh call is outstanding starts a new     *)
(* upstream call of which it is the only awaiter.                          *)
(***************************************************************************)
C15_MarkerCleared ==
    [][/\ MarkerLive'
       /\ PendingRefreshes' \subseteq {inFlightRefresh'}
       /\ (CallsRefresh /\ PendingRefreshes = {})
             => /\ inFlightRefresh = NoPromise
                /\ inFlightRefresh' \notin DOMAIN promises
                /\ inFlightRefresh' \in PendingRefreshes'
                /\ Len(promises'[inFlightRefresh'].waiters) = 1
                /\ promises'[inFlightRefresh'].waiters[1].role = "starter"]_vars

\* A timer callback has started a new refresh on a populated cache: one
\* refresh completed with success and one with failure before it.
C15_Witness ==
    /\ Populated
    /\ retrying # {}
    /\ inFlightRefresh \in PendingRefreshes
    /\ Awaiting(inFlightRefresh) = {RetryProc(id) : id \in retrying}

(***************************************************************************)
(* C16.  A failed upstream attempt, in a refresh or in the call GET makes  *)
(* itself, leaves the cache as it was; the cache changes only in the step  *)
(* that handles a successful answer, and then payload and timestamp are    *)
(* replaced together by that answer's payload and the current time.        *)
(***************************************************************************)
C16_FailureKeepsCache ==
    [][/\ Failed' => cache' = cache
       /\ cache' # cache
             => /\ lastResult'.ok
                /\ cache' = [payload |-> lastResult'.payload,
                             fetchedAt |-> now]]_vars

\* An upstream call has failed while the cache holds a payload stored at an
\* earlier time.
C16_Witness ==
    /\ Failed
    /\ Populated
    /\ cache.fetchedAt < now

(***************************************************************************)
(* C17.  The cold-start fallback.  A request that resumes after a failed   *)
(* refresh with no cached payload makes one upstream call of its own when  *)
(* no refresh is in flight, returns what that call's answer gives, and no  *)
(* refresh is in flight for as long as that call is outstanding.           *)
(***************************************************************************)
C17_ColdStartFallback ==
    [][\A r \in Requests :
          /\ (pc[r] = "refresh" /\ pc'[r] = "fallback")
                => inFlightRefresh' = NoPromise /\ PendingRefreshes' = {}
          /\ (pc[r] = "fallback" /\ pc'[r] # "fallback")
                => /\ pc'[r] = "done"
                   /\ res'[r] = afterLastAttempt(lastResult').response
          /\ pc'[r] = "fallback"
                => inFlightRefresh' = NoPromise /\ PendingRefreshes' = {}]_vars

(***************************************************************************)
(* C18.  A retry is armed only with a payload in the cache: in every state *)
(* with retryTimer set or a timeout scheduled the cache holds a payload.   *)
(***************************************************************************)
C18_ArmedOnlyIfPopulated ==
    (Armed \/ timers # {}) => Populated

(***************************************************************************)
(* C19.  The cache only moves forward: once it holds a payload it holds    *)
(* one in every later state, and its timestamp never decreases as long as  *)
(* the clock has not been set back.                                        *)
(***************************************************************************)
C19_CacheMovesForward ==
    [][/\ Populated => Populated'
       /\ setbacks' = 0 => cache'.fetchedAt >= cache.fetchedAt]_vars

(***************************************************************************)
(* C20.  The stale flag is truthful: every response returned with          *)
(* stale=true carries an ageMs of CACHE_TTL_MS or more (on a clock that    *)
(* has not been set back).                                                 *)
(***************************************************************************)
C20_StaleFlagTruthful ==
    \A r \in Requests :
        (pc[r] = "done" /\ res[r].stale /\ setbacks = 0)
            => res[r].ageMs >= CACHE_TTL_MS

\* The callers that begin to await a refresh in this step.
NewCallers ==
    {GetProc(r) : r \in {q \in Requests : Arrives(q) /\ pc'[q] = "refresh"}}
        \cup {RetryProc(id) : id \in retrying' \ retrying}

(***************************************************************************)
(* C21.  Single-flight across requests and timer firings: at most one      *)
(* upstream call started through refreshCache is outstanding; a timer      *)
(* callback or a request that calls refreshCache while such a call is      *)
(* outstanding starts none and awaits that one; and every caller resumes   *)
(* with the outcome of the refresh it awaited.                             *)
(***************************************************************************)
C21_SingleFlightWithTimers ==
    [][/\ Cardinality(PendingRefreshes') <= 1
       /\ (NewCallers # {} /\ PendingRefreshes # {})
             => /\ PendingRefreshes' = PendingRefreshes
                /\ inFlightRefresh' = inFlightRefresh
                /\ NewCallers \subseteq Awaiting(inFlightRefresh)'
                /\ Awaiting(inFlightRefresh) \subseteq Awaiting(inFlightRefresh)'
       /\ (microtasks # <<>> /\ Head(microtasks).task = "resume")
             => Head(microtasks).value = lastResult.ok]_vars

\* A timer callback has joined the refresh a request started, and both
\* await its upstream call.
C21_Witness ==
    /\ inFlightRefresh \in PendingRefreshes
    /\ \E r \in Requests, id \in retrying :
          /\ pc[r] = "refresh"
          /\ promises[inFlightRefresh].waiters =
                <<[proc |-> GetProc(r), role |-> "starter"],
                  [proc |-> RetryProc(id), role |-> "joiner"]>>

====
